---- MODULE Spec2Model ----
(***************************************************************************)
(* htpdate 1.2.6 (src/htpdate.c): the poll-cycle loop of main(), the       *)
(* sample collection, the consensus filter, setclock(), htpdate_adjtimex() *)
(* and the privilege switches, as one sequential state machine.            *)
(*                                                                         *)
(* Conventions                                                             *)
(*  - C arrays are 0-based, sequences here are 1-based: timedelta[k] of    *)
(*    the code is timedelta[k+1] here; the source index i runs 1..N        *)
(*    instead of optind..argc-1.                                           *)
(*  - timedelta holds the prefix timedelta[0..validtimes-1] of the C       *)
(*    array; what lies beyond the prefix is stale or uninitialised and is  *)
(*    read only by line 877 when validtimes = 0 (see Consensus).           *)
(*  - a double is an exact rational [num, den] (seconds = num/den).        *)
(*  - getHTTPdate returns a long that main() narrows to int (line 837); on *)
(*    an LP64 build LONG_MAX = 2^63-1 has low 32 bits 0xFFFFFFFF, so the   *)
(*    narrowed "no reading" value LONG_MAX - tv_sec is -1 - tv_sec for     *)
(*    every 0 <= tv_sec < 2^31. All other values stay inside the int       *)
(*    range in this model, where narrowing is the identity.                *)
(*  - daemonize || foreground is the single flag persistent.               *)
(***************************************************************************)
EXTENDS Integers, Sequences, FiniteSets, TLC

\* ------------------------------------------------------------ constants
MAX_HTTP_HOSTS == 15
DEFAULT_TIME_LIMIT == 31536000
NO_TIME_LIMIT == -1
DEFAULT_MIN_SLEEP == 1800
DEFAULT_MAX_SLEEP == 115200
MAX_DRIFT == 32768000
MAX_ATTEMPT == 2

\* ------------------------------------------------------------ bounds
\* Largest number of sources whose poll cycle is explored.
MaxServers == 2
\* A run is followed for as many poll cycles as take at most this many
\* samples in all (one sample per source and burst iteration).
MaxSamples == 4

\* ------------------------------------------------------------ inputs
\* numservers = argc - optind; the two counts above MAX_HTTP_HOSTS exercise
\* the startup check of line 752.
ServerCounts == (1..MaxServers) \cup {MAX_HTTP_HOSTS + 1, MAX_HTTP_HOSTS + 2}
\* -p in microseconds after line 684 (0: not given, 499 ms: the largest
\* value line 680 accepts).
Precisions == {0, 499000}
TimeLimits == {NO_TIME_LIMIT, DEFAULT_TIME_LIMIT}
MinSleeps == {DEFAULT_MIN_SLEEP}
MaxSleeps == {2000}
\* 0 is root; the other uid is an unprivileged account.
RootUid == 0
Uids == {RootUid, 1000}
\* Local clock (seconds since the epoch) when the program starts.
StartClocks == {1000, 100000000}
\* Remote minus local time, in seconds, of a response that carries a date.
Deltas == {-2, -1, 0, 1}
\* Results of the calls of adjtime, settimeofday and adjtimex.
CallResults == {0, -1}
\* tmx.freq as the kernel reports it (|freq| <= MAX_DRIFT).
KernelFreqs == {0, 2000000}
\* What timedelta[0] may hold when nothing has been stored in it.
Garbage == {0, 7}

\* How one network exchange ends (getHTTPdate, lines 306-424).
NetOutcomes ==
    {[kind |-> k, delta |-> 0] : k \in {"unresolved", "connfail", "norecv", "nodate", "baddate"}}
    \cup {[kind |-> "date", delta |-> d] : d \in Deltas}

VARIABLES
    \* configuration, fixed after option parsing (lines 640-742)
    numservers, persistent, burstmode, precision, timelimit, minsleep, maxsleep,
    sw_uid, ruid,
    \* locals of main()
    setmode, nap, when, sleeptime, starttime, drift, i, burst, try, timestamp,
    timedelta, validtimes, offsetdetect, mean, goodtimes, sumtimes, timeavg,
    \* control
    pc, exitcode,
    \* operating system: effective uid and wall clock (seconds)
    euid, now,
    \* history (not program state): the number of cycles begun and, for the
    \* current cycle, the privileged calls made, the reading each sample was
    \* taken from, whether any exchange returned a dated response, the
    \* seconds slept, and the values of when at which exchanges were sent
    cycle, syscalls, readings, sawvalid, slept, sent

cfgvars == <<numservers, persistent, burstmode, precision, timelimit, minsleep,
             maxsleep, sw_uid, ruid>>
pollvars == <<i, burst, try, timestamp, timedelta, validtimes, offsetdetect, when>>
consvars == <<mean, goodtimes, sumtimes, timeavg>>
vars == <<numservers, persistent, burstmode, precision, timelimit, minsleep,
          maxsleep, sw_uid, ruid, setmode, nap, when, sleeptime, starttime,
          drift, i, burst, try, timestamp, timedelta, validtimes, offsetdetect,
          mean, goodtimes, sumtimes, timeavg, pc, exitcode, euid, now,
          cycle, syscalls, readings, sawvalid, slept, sent>>

\* ------------------------------------------------------------ helpers
Abs(x) == IF x < 0 THEN -x ELSE x

\* sign with zero on the negative side.
signZeroNegative(x) == IF x <= 0 THEN -1 ELSE 1

\* The macro of line 83.
sign(x) == IF x < 0 THEN -1 ELSE 1

Zero == [num |-> 0, den |-> 1]

\* (long)q for the rational q = num/den: truncation toward zero.
Trunc(num, den) == IF num >= 0 THEN num \div den ELSE -((-num) \div den)

\* The inner loop of insertsort (lines 127-129): shift the elements above
\* value one place up, starting at position j, and drop value in the gap.
RECURSIVE InsertShift(_, _, _)
InsertShift(a, j, value) ==
    IF j >= 1 /\ a[j] > value
    THEN InsertShift([a EXCEPT ![j + 1] = a[j]], j - 1, value)
    ELSE [a EXCEPT ![j + 1] = value]

\* The outer loop of insertsort (lines 125-130), k the 1-based position.
RECURSIVE InsertFrom(_, _, _)
InsertFrom(a, k, length) ==
    IF k > length THEN a
    ELSE InsertFrom(InsertShift(a, k - 1, a[k]), k + 1, length)

\* insertsort with the outer loop started one element late (i = 2).
insertsortLate(a, length) == InsertFrom(a, 3, length)

insertsort(a, length) == InsertFrom(a, 2, length)

\* seteuid(id) succeeds for a process started by root (saved uid 0) and, for
\* any other process, only for its own uid.
SeteuidOk(id) == ruid = RootUid \/ id = ruid

\* One entry of the history of system calls.
Call(name, arg, ret) == [call |-> name, arg |-> arg, ret |-> ret]

\* exit(code): the process is gone; nothing else changes.
Exit(code) == pc' = "exited" /\ exitcode' = code

\* The narrowed value of LONG_MAX - tv_sec (lines 275, 424, 837).
NoReading(tv_sec) == -1 - tv_sec

\* getHTTPdate (lines 269-426) as main() sees it after the narrowing of
\* line 837: net is how the exchange ends, tv_sec the local time read by
\* the last gettimeofday before the return.
getHTTPdate(net, tv_sec) ==
    CASE net.kind = "unresolved" -> 0                   \* line 316
      [] net.kind = "connfail"   -> 0                   \* line 349
      [] net.kind = "norecv"     -> NoReading(tv_sec)   \* rc = 0: lines 375, 424
      [] net.kind = "nodate"     -> NoReading(tv_sec)   \* line 416
      [] net.kind = "baddate"    -> NoReading(tv_sec)   \* line 407
      [] net.kind = "date"       -> net.delta           \* lines 405, 424

\* What the exchange was, for the history: a resolution or connection
\* failure, an exchange without a reading, or a reading.
ClassOf(net) ==
    CASE net.kind \in {"unresolved", "connfail"} -> "unreachable"
      [] net.kind \in {"norecv", "nodate", "baddate"} -> "noreading"
      [] net.kind = "date" -> "valid"

\* The sanity filter of line 843.
Admitted(ts) ==
    timelimit = NO_TIME_LIMIT \/ (ts < timelimit /\ ts > -timelimit)

\* The phase at which the first exchange is sent (lines 802-805, 824-827).
FirstWhen == IF precision # 0 THEN precision ELSE nap

\* ------------------------------------------------------------ initial state
\* The state after option parsing (line 742): every switch has been read
\* and validated, nothing has been computed from them yet.
Init ==
    /\ numservers \in ServerCounts
    /\ persistent \in BOOLEAN
    /\ burstmode \in {0, 1}
    /\ precision \in Precisions
    /\ timelimit \in TimeLimits
    /\ minsleep \in MinSleeps
    /\ maxsleep \in MaxSleeps
    /\ sw_uid \in Uids
    /\ ruid \in Uids
    /\ setmode \in 0..3
    /\ nap = 0
    /\ when = 500000
    /\ sleeptime = minsleep
    /\ starttime = 0
    /\ drift = [num |-> 0, den |-> 1, secs |-> 1]
    /\ i = 0 /\ burst = 0 /\ try = 0 /\ timestamp = 0
    /\ timedelta = <<>> /\ validtimes = 0 /\ offsetdetect = 0
    /\ mean = 0 /\ goodtimes = 0 /\ sumtimes = 0 /\ timeavg = Zero
    /\ pc = "start" /\ exitcode = 0
    /\ euid = ruid
    /\ now \in StartClocks
    /\ cycle = 0 /\ syscalls = <<>> /\ readings = <<>> /\ sawvalid = FALSE /\ slept = 0
    /\ sent = {}

\* ------------------------------------------------------------ startup
\* nap of lines 780-788.
NapFor(n, p) ==
    IF n > 1
    THEN IF p # 0 /\ n > 2 THEN (1000000 - 2 * p) \div (n - 1)
         ELSE 1000000 \div (n + 1)
    ELSE 500000

\* Lines 750-788: the checks between option parsing and the poll loop, the
\* drop of privileges and the nap computation.
Startup ==
    /\ pc = "start"
    /\ IF numservers > MAX_HTTP_HOSTS
       THEN \* "Too many servers"
            /\ Exit(1)
            /\ UNCHANGED <<setmode, euid, nap, precision, syscalls>>
       ELSE IF ruid # RootUid /\ (setmode # 0 \/ persistent)
       THEN \* "Only root can change time"
            /\ Exit(1)
            /\ UNCHANGED <<setmode, euid, nap, precision, syscalls>>
       ELSE IF sw_uid # 0 /\ ~SeteuidOk(sw_uid)
       THEN \* swuid(sw_uid) of line 775 fails
            /\ Exit(1)
            /\ syscalls' = Append(syscalls, Call("seteuid", sw_uid, -1))
            /\ UNCHANGED <<setmode, euid, nap, precision>>
       ELSE /\ setmode' = IF persistent /\ setmode = 0 THEN 1 ELSE setmode
            /\ euid' = IF sw_uid # 0 THEN sw_uid ELSE euid
            /\ syscalls' = IF sw_uid # 0
                            THEN Append(syscalls, Call("seteuid", sw_uid, 0))
                            ELSE syscalls
            /\ nap' = NapFor(numservers, precision)
            /\ precision' = IF numservers > 1 THEN precision ELSE 0
            /\ pc' = "cycle"
            /\ UNCHANGED exitcode
    /\ UNCHANGED <<numservers, persistent, burstmode, timelimit, minsleep, maxsleep,
                   sw_uid, ruid, when, sleeptime, starttime, drift, i, burst, try,
                   timestamp, timedelta, validtimes, offsetdetect, mean, goodtimes,
                   sumtimes, timeavg, now, cycle, readings, sawvalid, sent, slept>>

\* ------------------------------------------------------------ sample collection
\* The burst loop of lines 831-865 runs once per source, or numservers times
\* in burst mode, and offers one sample to the filter each time.
SamplesPerCycle == IF burstmode # 0 THEN numservers * numservers ELSE numservers

\* Lines 801-833 with validtimes left out of the assignment of line 805:
\* the samples of the cycle before stay in timedelta.
BeginCycleKeepsSamples ==
    /\ pc = "cycle"
    /\ (cycle + 1) * SamplesPerCycle <= MaxSamples
    /\ goodtimes' = 0 /\ sumtimes' = 0 /\ offsetdetect' = 0
    /\ when' = FirstWhen
    /\ i' = 1
    /\ burst' = 0
    /\ try' = MAX_ATTEMPT
    /\ cycle' = cycle + 1
    /\ syscalls' = <<>> /\ readings' = <<>> /\ sawvalid' = FALSE /\ slept' = 0
    /\ sent' = {}
    /\ pc' = "attempt"
    /\ UNCHANGED <<cfgvars, setmode, nap, sleeptime, starttime, drift, timestamp,
                   timedelta, validtimes, mean, timeavg, exitcode, euid, now>>

\* Lines 801-833: the head of the poll cycle, up to the first exchange of
\* the first source (numservers >= 1, so the for-loop test of line 808
\* succeeds): the counters are cleared, when is set, burst = 0 and
\* try = MAX_ATTEMPT. The history of the previous cycle is dropped.
BeginCycle ==
    /\ pc = "cycle"
    /\ (cycle + 1) * SamplesPerCycle <= MaxSamples
    /\ validtimes' = 0 /\ goodtimes' = 0 /\ sumtimes' = 0 /\ offsetdetect' = 0
    /\ when' = FirstWhen
    /\ i' = 1
    /\ burst' = 0
    /\ try' = MAX_ATTEMPT
    /\ timedelta' = <<>>
    /\ cycle' = cycle + 1
    /\ syscalls' = <<>> /\ readings' = <<>> /\ sawvalid' = FALSE /\ slept' = 0
    /\ sent' = {}
    /\ pc' = "attempt"
    /\ UNCHANGED <<cfgvars, setmode, nap, sleeptime, starttime, drift, timestamp,
                   mean, timeavg, exitcode, euid, now>>

\* The retry loop with the test of line 840 reduced to the attempts left.
PollRetriesAlways ==
    /\ pc = "attempt"
    /\ \E net \in NetOutcomes :
         /\ timestamp' = getHTTPdate(net, now)
         /\ try' = try - 1
         /\ sawvalid' = (sawvalid \/ ClassOf(net) = "valid")
         /\ sent' = sent \cup {when}
         /\ IF try' # 0
            THEN pc' = "attempt" /\ UNCHANGED readings
            ELSE /\ pc' = "admit"
                 /\ readings' = Append(readings, [class |-> ClassOf(net), ts |-> timestamp'])
    /\ UNCHANGED <<cfgvars, setmode, nap, when, sleeptime, starttime, drift, i, burst,
                   timedelta, validtimes, offsetdetect, consvars, exitcode, euid, now,
                   cycle, syscalls, slept>>

\* Lines 834-840: one pass of the retry loop, i.e. one network exchange.
Poll ==
    /\ pc = "attempt"
    /\ \E net \in NetOutcomes :
         /\ timestamp' = getHTTPdate(net, now)
         /\ try' = try - 1
         /\ sawvalid' = (sawvalid \/ ClassOf(net) = "valid")
         /\ sent' = sent \cup {when}
         /\ IF timestamp' # 0 /\ try' # 0
            THEN pc' = "attempt" /\ UNCHANGED readings
            ELSE /\ pc' = "admit"
                 /\ readings' = Append(readings, [class |-> ClassOf(net), ts |-> timestamp'])
    /\ UNCHANGED <<cfgvars, setmode, nap, when, sleeptime, starttime, drift, i, burst,
                   timedelta, validtimes, offsetdetect, consvars, exitcode, euid, now,
                   cycle, syscalls, slept>>

\* Lines 842-865: the sanity filter, the offset flag, the nap and the test
\* of the burst loop (which starts the next retry loop with try = MAX_ATTEMPT).
Admit ==
    /\ pc = "admit"
    /\ IF Admitted(timestamp)
       THEN /\ timedelta' = Append(timedelta, timestamp)
            /\ validtimes' = validtimes + 1
       ELSE UNCHANGED <<timedelta, validtimes>>
    /\ offsetdetect' = IF timestamp # 0 THEN 1 ELSE offsetdetect
    /\ when' = when + nap
    /\ burst' = burst + 1
    /\ IF burst' < numservers * burstmode
       THEN try' = MAX_ATTEMPT /\ pc' = "attempt"
       ELSE try' = try /\ pc' = "sleep"
    /\ UNCHANGED <<cfgvars, setmode, nap, sleeptime, starttime, drift, i, timestamp,
                   consvars, exitcode, euid, now, cycle, syscalls, readings, sawvalid, sent,
                   slept>>

\* Lines 867-871 and 808-833 without the burst-mode reset of lines 824-829.
NextSourceKeepsWhen ==
    /\ pc = "sleep"
    /\ IF persistent /\ offsetdetect = 0
       THEN /\ now' = now + sleeptime \div numservers
            /\ slept' = slept + sleeptime \div numservers
       ELSE UNCHANGED <<now, slept>>
    /\ i' = i + 1
    /\ IF i' <= numservers
       THEN /\ when' = when
            /\ burst' = 0
            /\ try' = MAX_ATTEMPT
            /\ pc' = "attempt"
            /\ UNCHANGED timestamp
       ELSE /\ pc' = "consensus"
            /\ timestamp' = 0 /\ try' = 0 /\ burst' = 0
            /\ UNCHANGED when
    /\ UNCHANGED <<cfgvars, setmode, nap, sleeptime, starttime, drift, timedelta,
                   validtimes, offsetdetect, consvars, exitcode, euid, cycle,
                   syscalls, readings, sawvalid, sent>>

\* Lines 867-871 and 808-833: the idle sleep after a source, the i++ and
\* test of the for loop, and either the set-up of the next source (burst-mode
\* reset of when, burst = 0, try = MAX_ATTEMPT) or the end of the loop. The
\* locals timestamp, try and burst are dead once the loop is left (they are
\* assigned at lines 837, 833, 830 before their next read) and are cleared.
NextSource ==
    /\ pc = "sleep"
    /\ IF persistent /\ offsetdetect = 0
       THEN /\ now' = now + sleeptime \div numservers
            /\ slept' = slept + sleeptime \div numservers
       ELSE UNCHANGED <<now, slept>>
    /\ i' = i + 1
    /\ IF i' <= numservers
       THEN /\ when' = IF burstmode # 0 THEN FirstWhen ELSE when
            /\ burst' = 0
            /\ try' = MAX_ATTEMPT
            /\ pc' = "attempt"
            /\ UNCHANGED timestamp
       ELSE /\ pc' = "consensus"
            /\ timestamp' = 0 /\ try' = 0 /\ burst' = 0
            /\ UNCHANGED when
    /\ UNCHANGED <<cfgvars, setmode, nap, sleeptime, starttime, drift, timedelta,
                   validtimes, offsetdetect, consvars, exitcode, euid, cycle,
                   syscalls, readings, sawvalid, sent>>

\* ------------------------------------------------------------ consensus
\* The test of line 884.
Inlier(x, m) == x - m <= 1 /\ x - m >= -1

\* Lines 883-888: the number and the sum of the inliers of a[1..n].
RECURSIVE CountGood(_, _, _)
CountGood(a, n, m) ==
    IF n = 0 THEN 0
    ELSE CountGood(a, n - 1, m) + (IF Inlier(a[n], m) THEN 1 ELSE 0)

\* Line 885 outside the test of line 884: every sample is summed.
RECURSIVE SumAll(_, _, _)
SumAll(a, n, m) ==
    IF n = 0 THEN 0 ELSE SumAll(a, n - 1, m) + a[n]

RECURSIVE SumGood(_, _, _)
SumGood(a, n, m) ==
    IF n = 0 THEN 0
    ELSE SumGood(a, n - 1, m) + (IF Inlier(a[n], m) THEN a[n] ELSE 0)

\* The index read by line 877, as a 1-based position.
MedianPos(n) == n \div 2 + 1

\* Lines 873-888: sort, median, inlier count and sum. With validtimes = 0
\* line 877 reads timedelta[0], which nothing has written in this cycle: the
\* value is arbitrary, and the loop of line 883 does not run.
Consensus ==
    /\ pc = "consensus"
    /\ timedelta' = insertsort(timedelta, validtimes)
    /\ IF validtimes > 0
       THEN mean' = timedelta'[MedianPos(validtimes)]
       ELSE mean' \in Garbage
    /\ goodtimes' = goodtimes + CountGood(timedelta', validtimes, mean')
    /\ sumtimes' = sumtimes + SumGood(timedelta', validtimes, mean')
    /\ pc' = "decide"
    /\ UNCHANGED <<cfgvars, setmode, nap, when, sleeptime, starttime, drift, i, burst,
                   try, timestamp, validtimes, offsetdetect, timeavg, exitcode, euid,
                   now, cycle, syscalls, readings, sawvalid, sent, slept>>

\* ------------------------------------------------------------ correction
\* Line 893.
Average == [num |-> sumtimes, den |-> goodtimes]

\* Lines 905-906: the precision snap.
Snapped(avg) ==
    IF precision # 0 /\ sumtimes < goodtimes /\ sumtimes > -goodtimes
    THEN [num |-> precision * sign(sumtimes), den |-> 1000000]
    ELSE avg

\* Line 433 without the test: no offset is taken to be zero.
IsZeroNever(delta) == FALSE

\* timedelta == 0 of line 433; 0/0 is not a number and compares unequal.
IsZero(delta) == delta.num = 0 /\ delta.den # 0

\* (long)(now + delta) of lines 458-460 for delta = num/den, rounded toward
\* zero (den = 0 does not arise: line 893 runs with goodtimes # 0).
SetTime(t, delta) ==
    IF delta.den = 0 THEN t
    ELSE LET fl == delta.num \div delta.den
             ce == -((-delta.num) \div delta.den)
         IN IF t + fl >= 0 THEN t + fl ELSE t + ce

\* The test of line 891 without the test: every cycle is taken to have a
\* valid response.
SuitableAlways == TRUE

\* Line 891: at least one valid response.
Suitable == goodtimes # 0

\* Line 901 with the test inverted.
NeedsChangeInverted == ~(sumtimes # 0 \/ ~persistent)

\* Line 901 without the test: the correction path is always taken.
NeedsChangeAlways == TRUE

\* Line 901 with the first cycle of a run taken as needing a change.
NeedsChangeFirstCycle == sumtimes # 0 \/ ~persistent \/ cycle = 1

\* Line 901: "Do I really need to change the time?"
NeedsChange == sumtimes # 0 \/ ~persistent

\* Lines 908-910 with a failed adjtime ending the process instead of being
\* logged.
SetClockFatal ==
    /\ pc = "decide"
    /\ Suitable
    /\ NeedsChange
    /\ timeavg' = Snapped(Average)
    /\ IF IsZero(timeavg') \/ setmode = 0
       THEN /\ pc' = "droppriv"
            /\ UNCHANGED <<euid, now, syscalls, exitcode>>
       ELSE IF ~SeteuidOk(RootUid)
       THEN /\ Exit(1)
            /\ syscalls' = Append(syscalls, Call("seteuid", RootUid, -1))
            /\ UNCHANGED <<euid, now>>
       ELSE IF setmode \in {1, 3}
       THEN \E r \in CallResults :
            /\ euid' = RootUid
            /\ syscalls' = syscalls \o <<Call("seteuid", RootUid, 0),
                                         Call("adjtime", timeavg', r)>>
            /\ IF r < 0 THEN Exit(1) ELSE pc' = "droppriv" /\ UNCHANGED exitcode
            /\ UNCHANGED now
       ELSE \E r \in CallResults :
            /\ r = 0 => SetTime(now, timeavg') >= 0
            /\ euid' = RootUid
            /\ syscalls' = syscalls \o <<Call("seteuid", RootUid, 0),
                                         Call("settimeofday", timeavg', r)>>
            /\ now' = IF r = 0 THEN SetTime(now, timeavg') ELSE now
            /\ pc' = "droppriv"
            /\ UNCHANGED exitcode
    /\ UNCHANGED <<cfgvars, setmode, nap, when, sleeptime, starttime, drift, i, burst,
                   try, timestamp, timedelta, validtimes, offsetdetect, mean, goodtimes,
                   sumtimes, cycle, readings, sawvalid, sent, slept>>

\* Lines 893 and 901-910: the average, the precision snap and the call of
\* setclock (lines 429-478). setclock returns at once for a zero offset and
\* in mode 0; modes 1 and 3 elevate and call adjtime, mode 2 elevates and
\* calls settimeofday, which the kernel refuses for a time before the epoch.
\* swuid(0) ends the process when seteuid fails (lines 206-209).
SetClock ==
    /\ pc = "decide"
    /\ Suitable
    /\ NeedsChange
    /\ timeavg' = Snapped(Average)
    /\ IF IsZero(timeavg') \/ setmode = 0
       THEN /\ pc' = "droppriv"
            /\ UNCHANGED <<euid, now, syscalls, exitcode>>
       ELSE IF ~SeteuidOk(RootUid)
       THEN /\ Exit(1)
            /\ syscalls' = Append(syscalls, Call("seteuid", RootUid, -1))
            /\ UNCHANGED <<euid, now>>
       ELSE IF setmode \in {1, 3}
       THEN \E r \in CallResults :
            /\ euid' = RootUid
            /\ syscalls' = syscalls \o <<Call("seteuid", RootUid, 0),
                                         Call("adjtime", timeavg', r)>>
            /\ pc' = "droppriv"
            /\ UNCHANGED <<now, exitcode>>
       ELSE \E r \in CallResults :
            /\ r = 0 => SetTime(now, timeavg') >= 0
            /\ euid' = RootUid
            /\ syscalls' = syscalls \o <<Call("seteuid", RootUid, 0),
                                         Call("settimeofday", timeavg', r)>>
            /\ now' = IF r = 0 THEN SetTime(now, timeavg') ELSE now
            /\ pc' = "droppriv"
            /\ UNCHANGED exitcode
    /\ UNCHANGED <<cfgvars, setmode, nap, when, sleeptime, starttime, drift, i, burst,
                   try, timestamp, timedelta, validtimes, offsetdetect, mean, goodtimes,
                   sumtimes, cycle, readings, sawvalid, sent, slept>>

\* Lines 913 and 930 without the call of swuid.
DropToOmitted(next) ==
    /\ pc' = next
    /\ UNCHANGED <<cfgvars, setmode, nap, sleeptime, starttime, drift, pollvars,
                   consvars, now, cycle, readings, sawvalid, sent, slept, euid, syscalls,
                   exitcode>>

\* swuid(sw_uid) of lines 913 and 930, leading to the program point next.
DropTo(next) ==
    /\ IF SeteuidOk(sw_uid)
       THEN /\ euid' = sw_uid
            /\ syscalls' = Append(syscalls, Call("seteuid", sw_uid, 0))
            /\ pc' = next
            /\ UNCHANGED exitcode
       ELSE /\ Exit(1)
            /\ syscalls' = Append(syscalls, Call("seteuid", sw_uid, -1))
            /\ UNCHANGED euid
    /\ UNCHANGED <<cfgvars, setmode, nap, sleeptime, starttime, drift, pollvars,
                   consvars, now, cycle, readings, sawvalid, sent, slept>>

\* Line 913 ("Drop root privileges again") and the test of line 915.
DropPrivileges ==
    /\ pc = "droppriv"
    /\ DropTo(IF persistent THEN "drift" ELSE "endcycle")

RECURSIVE GCD(_, _)
GCD(a, b) == IF b = 0 THEN a ELSE GCD(b, a % b)

\* Candidates of this size or more end at +-MAX_DRIFT whatever the kernel
\* reports (|tmx.freq| <= MAX_DRIFT), so the long division stops there.
FreqCap == 4 * MAX_DRIFT

\* Six more decimal digits of the quotient q, remainder r, divisor k.
RECURSIVE Digits(_, _, _, _)
Digits(q, r, k, n) ==
    IF n = 0 \/ q >= FreqCap THEN q
    ELSE Digits(q * 10 + (r * 10) \div k, (r * 10) % k, k, n - 1)

\* Line 491: (long)(65536e6 * drift), drift = num/(den*secs), by long
\* division (65536e6 = 65536 * 10^6), truncated toward zero and cut off at
\* +-FreqCap.
Frequency(d) ==
    IF d.num = 0 THEN 0
    ELSE LET g == GCD(Abs(d.num), d.den)
             a == Abs(d.num) \div g
             k == (d.den \div g) * d.secs
             q == IF a > 32767 THEN FreqCap
                  ELSE Digits((a * 65536) \div k, (a * 65536) % k, k, 6)
         IN sign(d.num) * (IF q > FreqCap THEN FreqCap ELSE q)

\* Lines 494-496: tmx.freq + (freq >> 1) and the clamp to +-MAX_DRIFT; the
\* shift of a negative long rounds down.
NewFrequency(kernel, freq) ==
    LET f == kernel + (freq \div 2)
    IN IF f < -MAX_DRIFT \/ f > MAX_DRIFT THEN sign(f) * MAX_DRIFT ELSE f

\* Lines 916-928 and 932-934: the drift estimate and, in mode 3, the call of
\* htpdate_adjtimex (lines 481-505), which reads the kernel frequency
\* (adjtimex with modes = 0, line 487), elevates and writes the new one;
\* without a start time, only the start time is recorded.
UpdateDrift ==
    /\ pc = "drift"
    /\ IF starttime # 0
       THEN /\ drift' = [num |-> timeavg.num, den |-> timeavg.den,
                         secs |-> now - starttime]
            /\ IF setmode = 3
               THEN /\ starttime' = now
                    /\ \E kernel \in KernelFreqs, r \in CallResults :
                         LET f == NewFrequency(kernel, Frequency(drift'))
                         IN /\ euid' = RootUid
                            /\ syscalls' = syscalls \o <<Call("adjtimex_read", kernel, 0),
                                                         Call("seteuid", RootUid, 0),
                                                         Call("adjtimex", f, r)>>
                    /\ pc' = "droppriv2"
               ELSE /\ pc' = "cooldown"
                    /\ UNCHANGED <<starttime, euid, syscalls>>
       ELSE /\ starttime' = now
            /\ pc' = "cooldown"
            /\ UNCHANGED <<drift, euid, syscalls>>
    /\ UNCHANGED <<cfgvars, setmode, nap, sleeptime, pollvars, consvars, exitcode,
                   now, cycle, readings, sawvalid, sent, slept>>

\* Line 930.
DropPrivilegesAgain ==
    /\ pc = "droppriv2"
    /\ DropTo("cooldown")

\* Lines 936-940: back to the minimum interval, and the sleep after a
\* correction.
CoolDown ==
    /\ pc = "cooldown"
    /\ sleeptime' = minsleep
    /\ now' = now + DEFAULT_MIN_SLEEP
    /\ slept' = slept + DEFAULT_MIN_SLEEP
    /\ pc' = "endcycle"
    /\ UNCHANGED <<cfgvars, setmode, nap, starttime, drift, pollvars, consvars,
                   exitcode, euid, cycle, syscalls, readings, sawvalid, sent>>

\* sleeptime <<= 1.
Doubled(t) == 2 * t

\* Lines 942-946 with the drift of line 918 computed here too, from the
\* correction of the cycle before.
BackoffComputesDrift ==
    /\ pc = "decide"
    /\ Suitable
    /\ ~NeedsChange
    /\ timeavg' = Average
    /\ sleeptime' = IF sleeptime < maxsleep THEN Doubled(sleeptime) ELSE sleeptime
    /\ pc' = "endcycle"
    /\ drift' = IF starttime # 0
                THEN [num |-> timeavg.num, den |-> timeavg.den, secs |-> now - starttime]
                ELSE drift
    /\ UNCHANGED <<cfgvars, setmode, nap, starttime, pollvars, mean, goodtimes,
                   sumtimes, exitcode, euid, now, cycle, syscalls, readings, sawvalid, sent,
                   slept>>

\* Lines 893 and 942-946: nothing to correct in a persistent run.
Backoff ==
    /\ pc = "decide"
    /\ Suitable
    /\ ~NeedsChange
    /\ timeavg' = Average
    /\ sleeptime' = IF sleeptime < maxsleep THEN Doubled(sleeptime) ELSE sleeptime
    /\ pc' = "endcycle"
    /\ UNCHANGED <<cfgvars, setmode, nap, starttime, drift, pollvars, mean, goodtimes,
                   sumtimes, exitcode, euid, now, cycle, syscalls, readings, sawvalid, sent,
                   slept>>

\* Lines 950-957: no server suitable for synchronization.
NoServer ==
    /\ pc = "decide"
    /\ ~Suitable
    /\ IF persistent
       THEN /\ now' = now + minsleep
            /\ slept' = slept + minsleep
            /\ pc' = "endcycle"
            /\ UNCHANGED exitcode
       ELSE /\ Exit(1)
            /\ UNCHANGED <<now, slept>>
    /\ UNCHANGED <<cfgvars, setmode, nap, sleeptime, starttime, drift, pollvars,
                   consvars, euid, cycle, syscalls, readings, sawvalid, sent>>

\* Lines 959-966 without the assignment of line 961: the mode of the first
\* cycle is kept.
EndCycleKeepsMode ==
    /\ pc = "endcycle"
    /\ IF persistent
       THEN pc' = "cycle" /\ UNCHANGED exitcode
       ELSE Exit(0)
    /\ UNCHANGED <<cfgvars, setmode, nap, sleeptime, starttime, drift, pollvars,
                   consvars, euid, now, cycle, syscalls, readings, sawvalid, sent, slept>>

\* Lines 959-966 with the loop test of line 964 always true.
EndCycleForever ==
    /\ pc = "endcycle"
    /\ setmode' = IF setmode # 3 THEN 1 ELSE setmode
    /\ pc' = "cycle"
    /\ UNCHANGED <<cfgvars, nap, sleeptime, starttime, drift, pollvars, consvars,
                   euid, now, cycle, syscalls, readings, sawvalid, sent, slept, exitcode>>

\* Lines 959-966: after the first cycle a set becomes an adjust; the loop
\* goes on in a persistent run and the process ends with status 0 otherwise.
EndCycle ==
    /\ pc = "endcycle"
    /\ setmode' = IF setmode # 3 THEN 1 ELSE setmode
    /\ IF persistent
       THEN pc' = "cycle" /\ UNCHANGED exitcode
       ELSE Exit(0)
    /\ UNCHANGED <<cfgvars, nap, sleeptime, starttime, drift, pollvars, consvars,
                   euid, now, cycle, syscalls, readings, sawvalid, sent, slept>>

Next ==
    \/ Startup
    \/ BeginCycle
    \/ Poll
    \/ Admit
    \/ NextSource
    \/ Consensus
    \/ SetClock
    \/ DropPrivileges
    \/ UpdateDrift
    \/ DropPrivilegesAgain
    \/ CoolDown
    \/ Backoff
    \/ NoServer
    \/ EndCycle

Spec == Init /\ [][Next]_vars

\* ------------------------------------------------------------ properties
\* The calls that change the system clock or its frequency.
ClockMutations == {"adjtime", "settimeofday", "adjtimex"}

Mutations(calls) == {k \in 1..Len(calls) : calls[k].call \in ClockMutations}

Elevations(calls) ==
    {k \in 1..Len(calls) : calls[k].call = "seteuid" /\ calls[k].arg = RootUid
                           /\ calls[k].ret = 0}

\* The body of the poll loop has been left (or the process has ended) after
\* at least one cycle: the counters and the history are those of that cycle.
CycleEnded == cycle > 0 /\ pc \in {"endcycle", "cycle", "exited"}

\* C1: in a persistent run the polling interval always satisfies
\* minsleep <= sleeptime <= maxsleep.
C1_SleepWithinBounds ==
    persistent => minsleep <= sleeptime /\ sleeptime <= maxsleep

\* C2: a poll cycle that ends with goodtimes = 0 has made no call of adjtime,
\* settimeofday or adjtimex, in any mode, one-shot or persistent.
C2_NoMutationWithoutInliers ==
    CycleEnded /\ goodtimes = 0 => Mutations(syscalls) = {}

\* C2 witness: a cycle of a run that sets the clock (mode 2, as root) has
\* ended without a single inlier.
C2_Witness ==
    /\ CycleEnded /\ goodtimes = 0
    /\ setmode = 2 /\ pc = "exited" /\ exitcode = 1
    /\ Len(readings) = numservers

\* The samples of the cycle whose last exchange returned a dated response.
ValidReadings == {k \in 1..Len(readings) : readings[k].class = "valid"}

\* C3: if every exchange of a cycle fails (host unresolvable, connection
\* failed, send or receive failed, no parseable date), the cycle ends in
\* consensus failure (no inlier), and a one-shot run exits with a nonzero
\* status.
C3_AllInvalidFails ==
    CycleEnded /\ Len(readings) = SamplesPerCycle /\ ~sawvalid
        => /\ goodtimes = 0
           /\ pc = "exited" => exitcode # 0

\* C4: without burst mode and without a precision window, a cycle in which
\* exactly one source yields a reading, of offset d, and every other source
\* fails does not end in consensus failure, and the offset computed for the
\* clock is d.
C4_SingleValidSourceWins ==
    \A k \in 1..Len(readings) :
        /\ CycleEnded /\ burstmode = 0 /\ precision = 0
        /\ Len(readings) = numservers
        /\ ValidReadings = {k}
        /\ pc = "exited" => exitcode = 0
        => /\ goodtimes # 0
           /\ timeavg.num = readings[k].ts * timeavg.den

\* C5: when setclock is called with an offset of exactly zero it returns
\* without a seteuid(0) and without a call of adjtime, settimeofday or
\* adjtimex, in each of the modes 0..3: on its return the cycle has made no
\* privileged call and the effective uid is the one the cycle started with.
C5_ZeroOffsetNoCall ==
    pc = "droppriv" /\ timeavg.num = 0
        => /\ Elevations(syscalls) = {}
           /\ Mutations(syscalls) = {}
           /\ euid = (IF sw_uid # 0 THEN sw_uid ELSE ruid)

\* C5 witness: setclock has returned from a zero offset in set mode (-s),
\* called by root on a reading of offset 0.
C5_Witness ==
    /\ pc = "droppriv" /\ timeavg.num = 0
    /\ setmode = 2 /\ ruid = RootUid
    /\ ValidReadings # {} /\ goodtimes > 0

\* The effective uid the startup leaves (lines 774-775): sw_uid when -u
\* names a user, and otherwise the uid of whoever started the process.
StartEuid == IF sw_uid # 0 THEN sw_uid ELSE ruid

\* C6 as stated: whenever a network exchange starts, the effective uid is
\* sw_uid.
C6_ExchangeAsSwUid ==
    pc \in {"attempt"} => euid = sw_uid

\* C6 as amended: whenever a network exchange starts (and at every other
\* point of the poll loop except between a privileged call and the swuid
\* that follows it) the effective uid is the one the startup left: sw_uid
\* when -u is given or root started the process, the invoking user's uid
\* otherwise; and the swuid after a privileged call restores sw_uid whether
\* the call succeeded or failed.
C6_ExchangeUnprivileged ==
    /\ pc \in {"cycle", "attempt", "admit", "sleep", "consensus", "decide", "drift",
               "cooldown", "endcycle"} => euid = StartEuid
    /\ pc \in {"drift", "cooldown", "endcycle"} /\ Elevations(syscalls) # {}
         => euid = sw_uid

\* C6 witness: the first exchange of the third cycle of a run in frequency
\* mode under an unprivileged uid; the first cycle recorded the start time
\* after a correction (seteuid(0), adjtime) and the second made a correction
\* and a frequency change (seteuid(0), adjtimex), each followed by a swuid.
C6_Witness ==
    /\ pc = "attempt" /\ cycle = 3 /\ setmode = 3
    /\ sw_uid # RootUid /\ euid = sw_uid
    /\ starttime # 0 /\ drift.num # 0

\* The runs are followed up to MaxSamples samples: a run that is about to
\* begin a cycle beyond that is not followed further.
Truncated == pc = "cycle" /\ (cycle + 1) * SamplesPerCycle > MaxSamples

\* The passes of the burst loop per source (a do-while: at least one).
Bursts == IF numservers * burstmode > 1 THEN numservers * burstmode ELSE 1

\* An upper bound of the steps a one-shot run has left: the sources still to
\* poll, the bursts and the attempts still to make, and the straight-line
\* code after the loop.
PollsLeft ==
    ((numservers - i) * (Bursts + 1) + (Bursts - burst)) * 5
    + (CASE pc = "attempt" -> 2 + try [] pc = "admit" -> 1 [] OTHER -> 0)

StepsLeft ==
    CASE pc = "exited" -> 0
      [] pc = "endcycle" -> 1
      [] pc = "droppriv" -> 2
      [] pc = "decide" -> 3
      [] pc = "consensus" -> 4
      [] pc \in {"attempt", "admit", "sleep"} -> 5 + PollsLeft
      [] pc = "cycle" -> 6 + numservers * (Bursts + 1) * 5
      [] pc = "start" -> 7 + numservers * (Bursts + 1) * 5
      [] OTHER -> 8 + numservers * (Bursts + 1) * 5

\* C7: a one-shot run executes exactly one poll cycle and then ends, whatever
\* the exchanges return: it never begins a second cycle, it can always take
\* a step until it has exited, every step brings it closer to the exit (so
\* it ends), and it exits with status 0 only after one cycle; in query mode
\* (setmode 0) the cycle makes no call of adjtime, settimeofday or adjtimex,
\* whatever the offset.
C7_OneShotSingleCycle ==
    /\ [](~persistent =>
            /\ cycle <= 1
            /\ StepsLeft >= 0
            /\ pc # "exited" /\ ~Truncated => ENABLED Next
            /\ pc = "exited" /\ exitcode = 0 => cycle = 1
            /\ setmode = 0 => Mutations(syscalls) = {})
    /\ [][~persistent => StepsLeft' < StepsLeft]_vars

\* C7 witness: a one-shot run in query mode (started by an unprivileged
\* user, so in mode 0) has exited with status 0 after its one cycle, which
\* found a nonzero offset and made no privileged call.
C7_Witness ==
    /\ ~persistent /\ pc = "exited" /\ exitcode = 0 /\ cycle = 1
    /\ ruid # RootUid /\ timeavg.num # 0 /\ goodtimes > 0
    /\ Mutations(syscalls) = {} /\ Elevations(syscalls) = {}

\* C8: sleeptime changes in two ways only: it doubles, in a cycle with
\* inliers whose correction is zero, and it returns to minsleep, in a cycle
\* with inliers whose correction is not zero; a cycle without inliers leaves
\* it as it is.
C8_SleepChanges ==
    [][sleeptime' # sleeptime =>
         \/ /\ sleeptime' = 2 * sleeptime
            /\ goodtimes' > 0 /\ sumtimes' = 0 /\ timeavg'.num = 0
            /\ pc' = "endcycle"
         \/ /\ sleeptime' = minsleep
            /\ goodtimes' > 0 /\ sumtimes' # 0 /\ timeavg'.num # 0
            /\ pc' = "endcycle"]_vars

\* C8 witness: the second cycle of a run with two sources has ended with a
\* correction and sleeptime back at minsleep; the first source answered
\* with offset 0 and was followed by a sleep of half the doubled interval,
\* so the first cycle had doubled sleeptime.
C8_Witness ==
    /\ persistent /\ pc = "endcycle" /\ cycle = 2 /\ numservers = 2
    /\ sleeptime = minsleep /\ sumtimes # 0 /\ goodtimes > 0
    /\ slept = (2 * minsleep) \div 2 + DEFAULT_MIN_SLEEP

\* The number of times v occurs in a[1..n].
RECURSIVE Occurrences(_, _, _)
Occurrences(a, n, v) ==
    IF n = 0 THEN 0 ELSE Occurrences(a, n - 1, v) + (IF a[n] = v THEN 1 ELSE 0)

\* The samples of the cycle that passed the filter, in the order taken.
RECURSIVE AdmittedSamples(_)
AdmittedSamples(r) ==
    IF r = <<>> THEN <<>>
    ELSE LET rest == AdmittedSamples(SubSeq(r, 1, Len(r) - 1))
             last == r[Len(r)].ts
         IN IF Admitted(last) THEN Append(rest, last) ELSE rest

\* C9: for a non-empty set of admitted samples, the array the consensus
\* works on is in ascending order, holds every admitted value as often as it
\* was admitted and nothing else, and the median is its element at index
\* floor(n/2) (position floor(n/2) + 1 here).
C9_SortedPermutationMedian ==
    pc = "decide" /\ validtimes > 0
        => LET admitted == AdmittedSamples(readings)
           IN /\ Len(timedelta) = validtimes /\ Len(admitted) = validtimes
              /\ \A k \in 1..(validtimes - 1) : timedelta[k] <= timedelta[k + 1]
              /\ \A k \in 1..validtimes :
                   /\ Occurrences(timedelta, validtimes, timedelta[k])
                        = Occurrences(admitted, validtimes, timedelta[k])
                   /\ Occurrences(timedelta, validtimes, admitted[k])
                        = Occurrences(admitted, validtimes, admitted[k])
              /\ mean = timedelta[validtimes \div 2 + 1]

\* C9 witness: four samples admitted in descending order, two of them
\* equal, have been sorted.
C9_Witness ==
    /\ pc = "decide" /\ validtimes = 4
    /\ readings[1].ts > readings[2].ts /\ readings[2].ts = readings[3].ts
    /\ readings[3].ts > readings[4].ts
    /\ timedelta[1] < timedelta[2] /\ mean = timedelta[3]

\* C10: whenever there is an inlier, the offset computed for the cycle lies
\* in [median - 1, median + 1], also when the precision window replaces it
\* by +precision or -precision.
C10_OffsetNearMedian ==
    pc \in {"droppriv", "endcycle"} /\ goodtimes >= 1 /\ exitcode = 0
        => /\ timeavg.den > 0
           /\ (mean - 1) * timeavg.den <= timeavg.num
           /\ timeavg.num <= (mean + 1) * timeavg.den

\* C10 witness: the precision window has replaced an average of -2/3
\* around the median -1.
C10_Witness ==
    /\ pc = "droppriv" /\ goodtimes = 3 /\ sumtimes = -2 /\ mean = -1
    /\ precision # 0 /\ timeavg = [num |-> -precision, den |-> 1000000]

\* C11: the offset handed to setclock is precision microseconds with the
\* sign of sumtimes (positive for sumtimes = 0, as sign() of line 83 has it)
\* when a precision is in effect and -goodtimes < sumtimes < goodtimes, and
\* sumtimes/goodtimes in every other case; a call of adjtime or settimeofday
\* carries that offset.
C11_PrecisionSnap ==
    pc = "droppriv"
        => /\ IF precision # 0 /\ -goodtimes < sumtimes /\ sumtimes < goodtimes
              THEN timeavg = [num |-> IF sumtimes < 0 THEN -precision ELSE precision,
                              den |-> 1000000]
              ELSE timeavg = [num |-> sumtimes, den |-> goodtimes]
           /\ \A k \in Mutations(syscalls) : syscalls[k].arg = timeavg

\* C11 witness: a one-shot run in adjust mode with a precision has handed
\* +precision to adjtime for two inliers of sum 0.
C11_Witness ==
    /\ pc = "droppriv" /\ precision # 0 /\ ~persistent /\ setmode = 1
    /\ goodtimes = 2 /\ sumtimes = 0
    /\ timeavg = [num |-> precision, den |-> 1000000]
    /\ Mutations(syscalls) # {}

\* C12: a run is rejected at startup for the number of its sources only
\* when more than 16 are given: a run started by root (which passes the
\* checks of lines 758 and 775) does not end before its first cycle unless
\* numservers > 16.
C12_SixteenAccepted ==
    pc = "exited" /\ cycle = 0 /\ ruid = RootUid => numservers > 16
\* The privileged clock calls of the cycle that returned an error.
FailedMutations == {k \in Mutations(syscalls) : syscalls[k].ret < 0}

\* C13: a failure of adjtime, settimeofday or the adjtimex write does not end
\* a persistent run: the process goes on, the privileges are dropped once
\* the correction path has been left, and at the head of the loop the next
\* cycle can start.
C13_FailedCallNotFatal ==
    persistent /\ FailedMutations # {}
        => /\ pc # "exited"
           /\ pc \in {"drift", "cooldown", "endcycle", "cycle"} => euid = StartEuid
           /\ pc = "cycle" /\ ~Truncated => ENABLED BeginCycle

\* C13 witness: the second cycle of a run in frequency mode under an
\* unprivileged uid is over, back at the head of the loop, after both adjtime
\* and the adjtimex write failed.
C13_Witness ==
    /\ persistent /\ pc = "cycle" /\ cycle = 2 /\ ~Truncated
    /\ sw_uid # RootUid /\ euid = sw_uid
    /\ \E k \in FailedMutations : syscalls[k].call = "adjtime"
    /\ \E k \in FailedMutations : syscalls[k].call = "adjtimex"

\* C14: per source and burst iteration at most 2 exchanges are made; the
\* first is made with try = MAX_ATTEMPT = 2 and the second follows if and
\* only if the first returned a nonzero value; no exchange follows a second
\* one or one that returned zero; the value offered to the filter is the
\* result of the last exchange, and is stored if the filter admits it.
C14_RetryOnNonzeroOnly ==
    /\ [](pc = "attempt" => /\ try \in {1, 2}
                            /\ try = 1 => timestamp # 0)
    /\ [][pc = "attempt" =>
            /\ \E net \in NetOutcomes : timestamp' = getHTTPdate(net, now)
            /\ pc' = "attempt" <=> (try = 2 /\ timestamp' # 0)
            /\ pc' = "attempt" => try' = 1 /\ readings' = readings
            /\ pc' # "attempt" =>
                 /\ pc' = "admit"
                 /\ readings'[Len(readings')].ts = timestamp'
                 /\ Len(readings') = Len(readings) + 1]_vars
    /\ [][pc = "admit" =>
            /\ timestamp = readings[Len(readings)].ts
            /\ timedelta' \in {timedelta, Append(timedelta, timestamp)}
            /\ pc' = "attempt" => try' = 2]_vars

\* C14 witness: the second source's sample took two exchanges (try has
\* gone from 2 to 0), the first returning a nonzero value and the second a
\* dated response of offset zero, which is what the filter is offered.
C14_Witness ==
    /\ pc = "admit" /\ try = 0 /\ timestamp = 0
    /\ Len(readings) = 2 /\ Cardinality(sent) = 2
    /\ readings[2].class = "valid" /\ burstmode = 0

\* C15 as stated: within a poll cycle when starts at precision (if set) or
\* nap, and no two exchanges of the cycle are sent at the same value of
\* when: the exchange about to be made is at a value not used before.
C15_DistinctPhases ==
    pc = "attempt" => /\ sent = {} => when = FirstWhen
                      /\ when \notin sent

\* C15 as amended: when starts at precision (if set) or nap and advances by
\* nap after each burst iteration, not after each exchange: the retry of an
\* iteration is sent at the same when as its first exchange. Without burst
\* mode the advance carries on across the sources, so the first exchanges of
\* the sources of a cycle are at distinct values; in burst mode when is set
\* back to its start at each source, so only the iterations of one source
\* are at distinct values.
C15_PhasePerIteration ==
    /\ [](pc = "attempt" =>
            /\ nap > 0
            /\ when = FirstWhen + (IF burstmode # 0 THEN burst ELSE i - 1) * nap
            /\ when \in sent => try < MAX_ATTEMPT \/ (burstmode # 0 /\ i > 1))
    /\ [][pc = "attempt" /\ pc' = "attempt" => when' = when]_vars
    /\ [][pc = "admit" => when' = when + nap]_vars

\* C15 witness: in burst mode the second source is at its second iteration,
\* about to retry at a value of when that the first source has used too.
C15_Witness ==
    /\ pc = "attempt" /\ burstmode # 0 /\ i = 2 /\ burst = 1 /\ try = 1
    /\ when \in sent /\ when = FirstWhen + nap /\ Cardinality(sent) = 2

\* C16: a sample is stored in timedelta only if its magnitude is below
\* timelimit or the limit is disabled, and the value that stands for "no
\* reading" (receive failure, date missing or unparseable) is never stored,
\* with or without the limit: when the source loop is left, timedelta holds
\* as many values as there are samples that are readings within the limit.
C16_SentinelNeverAdmitted ==
    pc = "consensus"
        => validtimes = Cardinality({k \in 1..Len(readings) :
                            /\ readings[k].class # "noreading"
                            /\ \/ timelimit = NO_TIME_LIMIT
                               \/ Abs(readings[k].ts) < timelimit})

C18_DriftAfterZeroCycle ==
    persistent /\ cycle = 2 /\ pc = "endcycle" /\ starttime # 0
      /\ goodtimes > 0 /\ sumtimes = 0 /\ ValidReadings = 1..Len(readings)
        => drift.num # 0 /\ drift.secs > 0

\* C18 as amended: a cycle with inliers and a zero correction leaves drift
\* and starttime as they are (drift is 0 if no drift was computed before);
\* drift is computed only in a cycle of a persistent run that applies a
\* correction c2 # 0 at a time t2 when an earlier correction time t1 is
\* recorded, and is then c2/(t2 - t1).
C18_DriftOnCorrectionOnly ==
    /\ [][pc = "decide" /\ goodtimes > 0 /\ sumtimes = 0
            => drift' = drift /\ starttime' = starttime]_vars
    /\ [][drift' # drift
            => /\ persistent /\ pc = "drift" /\ starttime # 0
               /\ sumtimes # 0 /\ timeavg.num # 0
               /\ drift' = [num |-> timeavg.num, den |-> timeavg.den,
                            secs |-> now - starttime]]_vars
    /\ [](persistent /\ cycle = 2 /\ pc = "endcycle" /\ starttime # 0
            /\ goodtimes > 0 /\ sumtimes = 0 => drift.num = 0)

\* C18 witness: the third cycle has computed the drift 1/3600 from its
\* correction of 1 s, 3600 s after the correction of the first cycle, the
\* second cycle having had a zero correction.
C18_Witness ==
    /\ persistent /\ cycle = 3 /\ pc = "cooldown" /\ setmode = 1
    /\ drift = [num |-> 1, den |-> 1, secs |-> 3600]
    /\ sleeptime = 2 * minsleep

\* The calls of adjtime and settimeofday made by setclock in the cycle.
Corrections == {k \in Mutations(syscalls) : syscalls[k].call # "adjtimex"}

\* C19 as stated: starttime and drift change only in a cycle whose
\* correction call (adjtime or settimeofday) succeeded.
C19_DriftStateOnSuccessOnly ==
    [][starttime' # starttime \/ drift' # drift
         => \E k \in Corrections : syscalls[k].ret = 0]_vars

\* C19 as amended: starttime and drift change only in a cycle of a
\* persistent run in which setclock was called with a nonzero correction,
\* whether the call succeeded or failed; a cycle that applies no correction
\* leaves both as they are.
C19_DriftStateOnCorrection ==
    /\ [][starttime' # starttime \/ drift' # drift
            => /\ persistent /\ pc = "drift"
               /\ goodtimes > 0 /\ sumtimes # 0 /\ timeavg.num # 0
               /\ \E k \in Corrections : syscalls[k].arg = timeavg]_vars
    /\ [][pc = "decide" /\ pc' = "endcycle"
            => starttime' = starttime /\ drift' = drift]_vars

\* C19 witness: the second cycle has computed a new drift and recorded a
\* new start time after its only correction call, adjtime, failed.
C19_Witness ==
    /\ persistent /\ cycle = 2 /\ pc = "droppriv2"
    /\ drift.num # 0 /\ starttime = now
    /\ \A k \in Corrections : syscalls[k].ret < 0

\* (f + c)/2 for the longs f and c, rounded toward zero.
HalfSum(f, c) == Trunc(f + c, 2)

\* C20: the frequency written by the adjtimex call is the equal-weight
\* average (f + c)/2 of the kernel's value f, read just before, and the
\* candidate c computed from drift, clamped to [-MAX_DRIFT, MAX_DRIFT]; it
\* is written only when an earlier correction time is recorded, in frequency
\* mode, and is never outside that range.
C20_FrequencyIsAverage ==
    pc = "droppriv2"
        => LET n == Len(syscalls)
               f == syscalls[n - 2].arg
               c == Frequency(drift)
               written == syscalls[n].arg
               average == HalfSum(f, c)
           IN /\ syscalls[n].call = "adjtimex" /\ syscalls[n - 2].call = "adjtimex_read"
              /\ setmode = 3 /\ starttime # 0
              /\ written >= -MAX_DRIFT /\ written <= MAX_DRIFT
              /\ written = (IF average > MAX_DRIFT THEN MAX_DRIFT
                            ELSE IF average < -MAX_DRIFT THEN -MAX_DRIFT
                            ELSE average)

\* The calls of the current cycle that step the clock.
Steps == {k \in 1..Len(syscalls) : syscalls[k].call = "settimeofday"}

\* C21: in a persistent run settimeofday can be issued only during the
\* first poll cycle: from the second cycle on the mode is adjust (1) or
\* frequency (3) and no call of the cycle is settimeofday, whatever the
\* first cycle did, since every pass through the end of the loop body
\* leaves the mode at 1 or 3; a run in frequency mode (3) stays in it.
C21_SetOnlyInFirstCycle ==
    /\ [](persistent /\ cycle >= 2 => setmode \in {1, 3} /\ Steps = {})
    /\ [][pc = "endcycle" => setmode' \in {1, 3}]_vars
    /\ [][setmode = 3 => setmode' = 3]_vars

\* C21 witness: the clock has been stepped in the first cycle (every sleep
\* and every start clock is a multiple of 100 seconds, a step by the
\* offsets polled is not), and the second cycle has corrected with adjtime.
C21_Witness ==
    /\ persistent /\ cycle = 2 /\ pc = "droppriv"
    /\ now % 100 # 0
    /\ setmode = 1
    /\ \E k \in Corrections : syscalls[k].call = "adjtime"

\* C22: in a persistent run two consecutive poll cycles are separated by at
\* least one idle sleep: when the loop body has been left, the cycle has
\* slept (after a source, after a consensus failure or after a correction).
\* Stated for the cycles all of whose samples come from dated responses.
C22_CyclesSeparatedBySleep ==
    persistent /\ cycle > 0 /\ pc = "cycle" /\ ValidReadings = 1..Len(readings)
        => slept > 0

\* The number of elements of timedelta[] (line 618).
TimedeltaSize == (MAX_HTTP_HOSTS + 1) * (MAX_HTTP_HOSTS + 1) - 1

\* C23: the samples stored in one cycle fit the buffer timedelta: validtimes
\* counts the samples stored, is at most N without burst mode and N*N with
\* it, which for every accepted source count (1..MAX_HTTP_HOSTS) is at
\* most the number of elements of timedelta; validtimes is 0 when a cycle
\* starts, and it changes otherwise only by a store at index validtimes,
\* which is inside the buffer.
C23_SamplesFitBuffer ==
    /\ [](/\ validtimes = Len(timedelta)
          /\ validtimes <= SamplesPerCycle
          /\ validtimes <= TimedeltaSize /\ TimedeltaSize = 255
          /\ \A n \in 1..MAX_HTTP_HOSTS : n <= TimedeltaSize /\ n * n <= TimedeltaSize)
    /\ [][cycle' # cycle => validtimes' = 0]_vars
    /\ [][validtimes' # validtimes /\ cycle' = cycle
            => /\ validtimes < TimedeltaSize
               /\ validtimes' = validtimes + 1
               /\ timedelta' = Append(timedelta, timestamp)]_vars

\* C23 witness: a cycle in burst mode with two sources has stored its
\* N*N = 4 samples.
C23_Witness ==
    /\ burstmode = 1 /\ numservers = 2
    /\ validtimes = numservers * numservers
    /\ pc = "consensus"

====
